---- MODULE Spec2Model ----
(***************************************************************************)
(* Model of the rojo reconciler (server/src/reconciler_v2.rs):             *)
(* compute_patch diffs a live instance of an RbxTree against a snapshot,   *)
(* apply_patch consumes a TreePatch and mutates the tree.                  *)
(*                                                                         *)
(* Option<T> is modelled as a sequence of length at most one:              *)
(* None == <<>>, Some(x) == <<x>>.  A HashMap is a function whose domain   *)
(* is its key set.                                                         *)
(***************************************************************************)
EXTENDS Integers, Sequences, FiniteSets, TLC

\* ------------------------------------------------------------------ bounds
MaxVal == 2          \* property values are 1..MaxVal
MaxChildren == 2     \* children of the initial tree / of a snapshot
MaxUpdates == 2      \* entries of a hand-built TreePatch.updated
MaxNewLen == 2       \* length of a hand-built changed_children list

Keys == {"k1", "k2"}
Vals == 1..MaxVal
Names == {"DataModel", "Not DataModel"}
Classes == {"DataModel", "Folder"}
ChildNames == {"Hi", "Lo"}

None == <<>>
Some(x) == <<x>>

Range(s) == {s[i] : i \in 1..Len(s)}

SeqsUpTo(S, n) == UNION {[1..m -> S] : m \in 0..n}

\* HashMap<String, RbxValue>
PropMaps == UNION {[D -> Vals] : D \in SUBSET Keys}

NoProps == [k \in {} |-> 1]

\* ------------------------------------------------------- the instance store
\* RbxInstanceProperties { name, class_name, properties }
RbxInstanceProperties(name, class_name, properties) ==
    [name |-> name, class_name |-> class_name, properties |-> properties]

\* RbxTree::new(root_props): a tree holding a single root instance.
RootId == 1

RbxTree_new(props) ==
    [root_id |-> RootId,
     instances |-> [i \in {RootId} |->
        [name |-> props.name, class_name |-> props.class_name,
         properties |-> props.properties, parent |-> None, children |-> <<>>]]]

Live(t) == DOMAIN t.instances

\* RbxTree::get_instance(id): Some(instance) or None
get_instance(t, id) == IF id \in Live(t) THEN Some(t.instances[id]) ELSE None

\* RbxTree::insert_instance(props, parent_id) -> fresh id: the new instance
\* is stored with parent_id as its parent and appended to the children of
\* parent_id.  The call fails for a parent_id that is not live; nothing
\* promises that the failure is atomic, so the model keeps the stored
\* instance in that case.
insert_instance(t, props, parent_id, new_id) ==
    [t EXCEPT !.instances =
        [i \in Live(t) \cup {new_id} |->
            IF i = new_id
            THEN [name |-> props.name, class_name |-> props.class_name,
                  properties |-> props.properties,
                  parent |-> Some(parent_id), children |-> <<>>]
            ELSE IF i = parent_id
            THEN [t.instances[i] EXCEPT !.children = Append(@, new_id)]
            ELSE t.instances[i]]]

RECURSIVE Descendants(_, _)
Descendants(t, id) ==
    IF id \notin Live(t) THEN {}
    ELSE {id} \cup UNION {Descendants(t, c) : c \in Range(t.instances[id].children)}

SelectSeqNe(s, x) == SelectSeq(s, LAMBDA e : e # x)

\* RbxTree::remove_instance(id): deletes the instance and, recursively, its
\* descendants, and unlinks it from its parent.
remove_instance(t, id) ==
    LET gone == Descendants(t, id) IN
    [t EXCEPT !.instances =
        [i \in Live(t) \ gone |->
            [t.instances[i] EXCEPT !.children = SelectSeqNe(@, id)]]]

\* --------------------------------------------------------------- snapshots
\* RbxSnapshotInstance { name, class_name, properties, children, metadata }
RbxSnapshotInstance(name, class_name, properties, children, ignore) ==
    [name |-> name, class_name |-> class_name, properties |-> properties,
     children |-> children,
     metadata |-> [ignore_unknown_instances |-> ignore]]

\* -------------------------------------------------------------- patch types
\* InstancePatch::default() paired with the id it is pushed under
\* (TreePatch.updated: Vec<(RbxId, InstancePatch)>)
InstancePatch_default ==
    [changed_name |-> None, changed_properties |-> [k \in {} |-> None],
     changed_children |-> None, changed_metadata |-> None]

\* InstancePatch::is_empty
is_empty(p) ==
    /\ p.changed_name = None
    /\ DOMAIN p.changed_properties = {}
    /\ p.changed_children = None
    /\ p.changed_metadata = None

\* TreePatch::default(): nothing added, nothing updated
TreePatch_default == [added |-> [i \in {} |-> 0], updated |-> <<>>]

Update(id, p) == [id |-> id, patch |-> p]

\* ------------------------------------------------------------ compute_patch
\* lines 70-72: the name difference recorded in the instance patch
changed_name_of(instance, snapshot) ==
    IF instance.name # snapshot.name THEN Some(instance.name) ELSE None

\* lines 74-85: first loop, over the instance's properties
changed_properties_first(instance, snapshot) ==
    LET ip == instance.properties
        sp == snapshot.properties
        ks == {k \in DOMAIN ip : k \notin DOMAIN sp \/ sp[k] # ip[k]}
    IN [k \in ks |-> IF k \in DOMAIN sp THEN Some(sp[k]) ELSE None]

\* the changes with the second loop left out
changed_properties_first_only(instance, snapshot) ==
    changed_properties_first(instance, snapshot)

\* lines 87-102: second loop, over the snapshot's properties, skipping keys
\* the first loop already recorded
changed_properties_of(instance, snapshot) ==
    LET ip == instance.properties
        sp == snapshot.properties
        first == changed_properties_first(instance, snapshot)
        ks == {k \in DOMAIN sp \ DOMAIN first :
                  k \notin DOMAIN ip \/ sp[k] # ip[k]}
    IN [k \in DOMAIN first \cup ks |->
            IF k \in DOMAIN first THEN first[k] ELSE Some(sp[k])]

\* compute_patch_core: the result is the patch, or a panic when the class
\* names differ (line 67).  The children of the snapshot are not visited.
compute_patch_core(tree, id, snapshot, tree_patch) ==
    IF get_instance(tree, id) = None
    THEN [panicked |-> FALSE, patch |-> tree_patch]
    ELSE LET instance == tree.instances[id]
             instance_patch ==
                [InstancePatch_default EXCEPT
                    !.changed_name = changed_name_of(instance, snapshot),
                    !.changed_properties = changed_properties_of(instance, snapshot)]
         IN IF instance.class_name # snapshot.class_name
            THEN [panicked |-> TRUE, patch |-> tree_patch]
            ELSE IF ~is_empty(instance_patch)
            THEN [panicked |-> FALSE,
                  patch |-> [tree_patch EXCEPT
                                !.updated = Append(@, Update(id, instance_patch))]]
            ELSE [panicked |-> FALSE, patch |-> tree_patch]

compute_patch(tree, id, snapshot) ==
    compute_patch_core(tree, id, snapshot, TreePatch_default)

\* -------------------------------------------------------------- apply_patch
\* the properties with a None entry leaving its key in place
apply_properties_kept(properties, changed) ==
    LET set == {k \in DOMAIN changed : changed[k] # None}
    IN [k \in DOMAIN properties \cup set |->
            IF k \in set THEN changed[k][1] ELSE properties[k]]

\* lines 115-120: Some(value) inserts the key, None removes it
apply_properties(properties, changed) ==
    LET gone == {k \in DOMAIN changed : changed[k] = None}
        set == DOMAIN changed \ gone
    IN [k \in (DOMAIN properties \ gone) \cup set |->
            IF k \in set THEN changed[k][1] ELSE properties[k]]

\* lines 122-124
apply_name(name, changed_name) ==
    IF changed_name # None THEN changed_name[1] ELSE name

\* lines 114-125: the in-place part of one update; nothing happens when the
\* id is not live
update_instance(tree, id, patch) ==
    IF get_instance(tree, id) = None THEN tree
    ELSE [tree EXCEPT !.instances[id] =
            [@ EXCEPT !.properties = apply_properties(@, patch.changed_properties),
                      !.name = apply_name(@, patch.changed_name)]]

\* the removed list with every current child on it
removed_ids_of_all(children_ids, new_children_ids) == children_ids

\* lines 133-141: current children that the new list does not name
removed_ids_of(children_ids, new_children_ids) ==
    SelectSeq(children_ids, LAMBDA c : c \notin Range(new_children_ids))

\* lines 143-151: ids of the new list that are not current children
added_ids_of(children_ids, new_children_ids) ==
    SelectSeq(new_children_ids, LAMBDA n : n \notin Range(children_ids))

\* HashMap::remove(&key)
map_remove(m, key) == [k \in DOMAIN m \ {key} |-> m[k]]

\* line 159 with the two ids in scope mixed up
insert_parent_added(update_id, added_id) == added_id

\* line 159: the parent handed to insert_instance is the id of the update
insert_parent(update_id, added_id) == update_id

\* =============================================== the project middleware
\* Model of snapshot_middleware/project.rs: SnapshotProject::from_vfs and
\* snapshot_project_node.  Projects here set no globIgnorePaths, so the
\* InstanceContext is the same in every call and is left out.

\* Result<T, SnapshotError>, a panic (panic!, expect, unwrap) and a recursion
\* that never returns
Ok(v) == [kind |-> "ok", value |-> v, error |-> ""]
Err(e) == [kind |-> "err", value |-> None, error |-> e]
Panic(m) == [kind |-> "panic", value |-> None, error |-> m]
Diverge == [kind |-> "diverge", value |-> None, error |-> "unbounded recursion"]

\* ---- paths: a path is a sequence of file names, a file name is <<stem, ext>>
FileName(stem, ext) == <<stem, ext>>

\* path.join("default.project.json") (line 29), project_folder.join(path)
join(path, parts) == path \o parts

\* a test of the file name that lets every name through
ends_with_anything(path) == path # <<>>

\* path.to_string_lossy().ends_with(".project.json") (line 40)
ends_with_project_json(path) ==
    path # <<>> /\ path[Len(path)][2] = "project.json"

\* Project::folder_location: the folder the project file is in
folder_location(path) == SubSeq(path, 1, Len(path) - 1)

\* ---- the virtual file system: a function from the paths that exist to
\* their entries
DirEntry(entries) ==
    [kind |-> "dir", broken |-> FALSE, readable |-> FALSE, json |-> None,
     text |-> "", entries |-> entries]
ProjectFile(project) ==
    [kind |-> "file", broken |-> FALSE, readable |-> TRUE, json |-> Some(project),
     text |-> "", entries |-> <<>>]
TextFile(text) ==
    [kind |-> "file", broken |-> FALSE, readable |-> TRUE, json |-> None,
     text |-> text, entries |-> <<>>]
Unreadable(entry) == [entry EXCEPT !.readable = FALSE]
Broken(entry) == [entry EXCEPT !.broken = TRUE]

\* Vfs::metadata(path): NotFound for a path that does not exist, another
\* io error for an entry that cannot be examined
vfs_metadata(vfs, path) ==
    IF path \notin DOMAIN vfs THEN Err("NotFound")
    ELSE IF vfs[path].broken THEN Err("VfsError")
    ELSE Ok(vfs[path].kind)

\* IoResultExt::with_not_found: NotFound becomes Ok(None)
with_not_found(r) ==
    IF r.kind = "err" /\ r.error = "NotFound" THEN Ok(None)
    ELSE IF r.kind = "ok" THEN Ok(Some(r.value))
    ELSE r

\* Vfs::read(path)
vfs_read(vfs, path) ==
    IF path \notin DOMAIN vfs THEN Err("NotFound")
    ELSE IF vfs[path].kind # "file" \/ ~vfs[path].readable THEN Err("VfsError")
    ELSE Ok(vfs[path])

\* Project::load_from_slice(contents, path), with the map_err of line 46
load_from_slice(contents) ==
    IF contents.json = None THEN Err("MalformedProject") ELSE Ok(contents.json[1])

\* ---- project manifests
\* ProjectNode { class_name, path, properties, ignore_unknown_instances,
\* children }: children is the sequence of <<name, node>> in the order the
\* map iterates them
ProjectNode(class_name, path, properties, ignore, children) ==
    [class_name |-> class_name, path |-> path, properties |-> properties,
     ignore_unknown_instances |-> ignore, children |-> children]

Project(name, tree) == [name |-> name, tree |-> tree]

RelativePath(parts) == [relative |-> TRUE, parts |-> parts]

\* ---- the value resolver (rbx_reflection::try_resolve_value)
\* a manifest value: tagged {Type, Value} or a bare JSON literal
Tagged(type, json, v) == [Type |-> Some(type), json |-> json, Value |-> v]
Bare(json, v) == [Type |-> None, json |-> json, Value |-> v]

\* the reflection database: the declared type of a property of a class
DeclaredType(class_name, key) ==
    IF key = "Name" THEN Some("String")
    ELSE IF class_name = "StringValue" /\ key = "Value" THEN Some("String")
    ELSE None

\* the JSON literals a type is built from
Fits(type, json) == type = "String" /\ json = "string"

\* try_resolve_value(class_name, key, value): a typed value, or an error for
\* an unknown property or a literal of the wrong type
try_resolve_value(class_name, key, value) ==
    LET type == IF value.Type # None THEN value.Type ELSE DeclaredType(class_name, key)
    IN IF type = None THEN Err("unknown property")
       ELSE IF ~Fits(type[1], value.json) THEN Err("type mismatch")
       ELSE Ok([Type |-> type[1], Value |-> value.Value])

\* ---- snapshots
\* InstigatingSource::Path / InstigatingSource::ProjectNode
SourcePath(path) == <<"Path", path>>
SourceProjectNode(folder, name, node) == <<"ProjectNode", folder, name, node>>

\* InstanceMetadata::default()
InstanceMetadata_default ==
    [ignore_unknown_instances |-> FALSE, instigating_source |-> None,
     relevant_paths |-> <<>>]

InstanceSnapshot(name, class_name, properties, children, metadata) ==
    [name |-> name, class_name |-> class_name, properties |-> properties,
     children |-> children, metadata |-> metadata]

\* ---- the middlewares
\* the overlay with the insertions the other way round: the value of
\* `base` survives
overlay_base_wins(base, over) ==
    [k \in DOMAIN base \cup DOMAIN over |->
        IF k \in DOMAIN base THEN base[k] ELSE over[k]]

\* properties.insert(key, value) for every pair of `over`, onto `base`
\* (lines 138-140 and 176)
overlay(base, over) ==
    [k \in DOMAIN base \cup DOMAIN over |->
        IF k \in DOMAIN over THEN over[k] ELSE base[k]]

\* lines 172-177: every $properties value through the resolver; expect()
\* panics on the first rejected one
resolve_properties(class_name, properties) ==
    IF \E k \in DOMAIN properties :
           try_resolve_value(class_name, k, properties[k]).kind # "ok"
    THEN Panic("TODO: Properly handle value resolution errors")
    ELSE Ok([k \in DOMAIN properties |->
                try_resolve_value(class_name, k, properties[k]).value])

\* lines 116-133: the class of a node whose $path yielded `snapshot`
path_class_name(class_name, snapshot) ==
    IF class_name # None
    THEN IF snapshot.class_name = "Folder"
         THEN Ok(class_name)
         ELSE Panic("If $className and $path are specified, $path must yield an instance of class Folder")
    ELSE Ok(Some(snapshot.class_name))

\* the flag without the default of a node that has no $path
ignore_unknown_of_inherited(node, metadata) ==
    IF node.ignore_unknown_instances # None
    THEN node.ignore_unknown_instances[1]
    ELSE metadata.ignore_unknown_instances

\* lines 185-191
ignore_unknown_of(node, metadata) ==
    IF node.ignore_unknown_instances # None
    THEN node.ignore_unknown_instances[1]
    ELSE IF node.path = None THEN TRUE
    ELSE metadata.ignore_unknown_instances

\* the source set only where the metadata names none yet
instigated_by_first(metadata, source) ==
    IF metadata.instigating_source = None
    THEN [metadata EXCEPT !.instigating_source = Some(source)]
    ELSE metadata

\* metadata.instigating_source = Some(source) (lines 76 and 193-197)
instigated_by(metadata, source) ==
    [metadata EXCEPT !.instigating_source = Some(source)]

\* the metadata with the push left out
mark_relevant_skipped(metadata, path) == metadata

\* metadata.relevant_paths.push(path) (line 84)
mark_relevant(metadata, path) ==
    [metadata EXCEPT !.relevant_paths = Append(@, path)]

\* the children with the declared ones pushed first
concat_children_declared_first(path_children, declared) == declared \o path_children

\* lines 142-170: the path snapshot's children, then the declared ones
concat_children(path_children, declared) == path_children \o declared

RECURSIVE snapshot_from_vfs(_, _, _)
RECURSIVE snapshot_entries(_, _, _, _)
RECURSIVE from_vfs(_, _, _)
RECURSIVE snapshot_project_node(_, _, _, _, _)
RECURSIVE snapshot_declared(_, _, _, _)

\* snapshot_project_node(context, project_folder, instance_name, node, vfs),
\* lines 90-207.  `active` is the set of project files whose from_vfs call
\* is on the stack.
snapshot_project_node(vfs, project_folder, instance_name, node, active) ==
    LET path == IF node.path = None THEN <<>>
                ELSE IF node.path[1].relative
                     THEN join(project_folder, node.path[1].parts)
                     ELSE node.path[1].parts
        from_path == IF node.path = None THEN Ok(None)
                     ELSE snapshot_from_vfs(vfs, path, active)
    IN IF from_path.kind # "ok" THEN from_path
       ELSE
       LET found == from_path.value
           class1 == IF found = None THEN Ok(node.class_name)
                     ELSE path_class_name(node.class_name, found[1])
       IN IF class1.kind # "ok" THEN class1
          ELSE IF class1.value = None
          THEN Panic("$className or $path must be specified")
          ELSE
          LET class_name == class1.value[1]
              properties0 == IF found = None THEN NoProps ELSE found[1].properties
              children0 == IF found = None THEN <<>> ELSE found[1].children
              metadata0 == IF found = None THEN InstanceMetadata_default
                           ELSE found[1].metadata
              declared == snapshot_declared(vfs, project_folder, node.children, active)
          IN IF declared.kind # "ok" THEN declared
             ELSE
             LET resolved == resolve_properties(class_name, node.properties)
             IN IF resolved.kind # "ok" THEN resolved
                ELSE Ok(Some(InstanceSnapshot(
                        instance_name,
                        class_name,
                        overlay(properties0, resolved.value),
                        concat_children(children0, declared.value),
                        instigated_by(
                            [metadata0 EXCEPT !.ignore_unknown_instances =
                                                ignore_unknown_of(node, metadata0)],
                            SourceProjectNode(project_folder, instance_name, node)))))

\* lines 164-170: one snapshot per declared child, in the order of the map;
\* the first failure ends the loop
snapshot_declared(vfs, project_folder, children, active) ==
    IF children = <<>> THEN Ok(<<>>)
    ELSE LET child == snapshot_project_node(vfs, project_folder, children[1][1],
                                            children[1][2], active)
         IN IF child.kind # "ok" THEN child
            ELSE LET rest == snapshot_declared(vfs, project_folder, Tail(children), active)
                 IN IF rest.kind # "ok" THEN rest
                    ELSE Ok(child.value \o rest.value)

\* SnapshotProject::from_vfs(context, vfs, path), lines 25-87
from_vfs(vfs, path, active) ==
    LET meta == vfs_metadata(vfs, path)
    IN IF meta.kind # "ok" THEN meta
       ELSE IF meta.value = "dir"
       THEN LET project_path == join(path, <<FileName("default", "project.json")>>)
                probe == with_not_found(vfs_metadata(vfs, project_path))
            IN IF probe.kind # "ok" THEN probe
               ELSE IF probe.value = None THEN Ok(None)
               ELSE from_vfs(vfs, project_path, active)
       ELSE IF ~ends_with_project_json(path) THEN Ok(None)
       ELSE
       LET contents == vfs_read(vfs, path)
       IN IF contents.kind # "ok" THEN contents
          ELSE
          LET project == load_from_slice(contents.value)
          IN IF project.kind # "ok" THEN project
             ELSE IF path \in active THEN Diverge
             ELSE
             LET root == snapshot_project_node(vfs, folder_location(path),
                             project.value.name, project.value.tree,
                             active \cup {path})
             IN IF root.kind # "ok" THEN root
                ELSE Ok(Some([root.value[1] EXCEPT !.metadata =
                        mark_relevant(instigated_by(@, SourcePath(path)), path)]))

\* the directory middleware's loop over the entries of a directory
snapshot_entries(vfs, path, entries, active) ==
    IF entries = <<>> THEN Ok(<<>>)
    ELSE LET child == snapshot_from_vfs(vfs, join(path, <<entries[1]>>), active)
         IN IF child.kind # "ok" THEN child
            ELSE LET rest == snapshot_entries(vfs, path, Tail(entries), active)
                 IN IF rest.kind # "ok" THEN rest
                    ELSE Ok(child.value \o rest.value)

\* snapshot_from_vfs(context, vfs, path): the dispatch over the middlewares,
\* the project middleware first
snapshot_from_vfs(vfs, path, active) ==
    LET project == from_vfs(vfs, path, active)
    IN IF project.kind # "ok" \/ project.value # None THEN project
       ELSE IF vfs[path].kind = "dir"
       THEN LET children == snapshot_entries(vfs, path, vfs[path].entries, active)
            IN IF children.kind # "ok" THEN children
               ELSE Ok(Some(InstanceSnapshot(
                        path[Len(path)][1], "Folder", NoProps, children.value,
                        [ignore_unknown_instances |-> FALSE,
                         instigating_source |-> Some(SourcePath(path)),
                         relevant_paths |-> <<path>>])))
       ELSE IF path[Len(path)][2] = "txt"
       THEN LET contents == vfs_read(vfs, path)
            IN IF contents.kind # "ok" THEN contents
               ELSE Ok(Some(InstanceSnapshot(
                        path[Len(path)][1], "StringValue",
                        [k \in {"Value"} |-> [Type |-> "String", Value |-> contents.value.text]],
                        <<>>,
                        [ignore_unknown_instances |-> FALSE,
                         instigating_source |-> Some(SourcePath(path)),
                         relevant_paths |-> <<path>>])))
       ELSE Ok(None)

\* ------------------------------------------------------------------- state
VARIABLES
    mode,         \* "sync": the patch comes from compute_patch;
                  \* "patch": apply_patch is handed a hand-built TreePatch
    tree,         \* the RbxTree (tree: &mut RbxTree)
    tree0,        \* the tree as it was when compute_patch / apply_patch was called
    id,           \* the id the sync is rooted at
    snapshot,     \* the RbxSnapshotInstance being synced
    snapshot0,    \* the snapshot of the previous sync cycle
    panicked,     \* Some(site) once a panic! / unwrap() on None has fired
    patch,        \* the TreePatch returned by compute_patch
    added0,       \* tree_patch.added as it is handed to apply_patch
    added,        \* tree_patch.added, entries are removed as they are inserted
    upd_idx,      \* position of the `for (id, patch) in tree_patch.updated` loop
    update,       \* the (id, patch) pair the loop is at
    children_ids, \* local of apply_patch (line 131)
    removed_ids,  \* local of apply_patch (line 128), the part not yet removed
    added_ids,    \* local of apply_patch (line 129), the part not yet inserted
    patch2,       \* the patch of the second compute_patch over the same snapshot
    change,       \* how the source was edited between two syncs
    nextId,       \* source of fresh RbxIds
    pc

VARIABLES
    vfs,          \* the virtual file system the project middleware reads
    request,      \* the path from_vfs / start_with_module_name is called on
    result,       \* what the call returned: Ok / Err, a panic, or no return
    started,      \* how far start_with_module_name got
    ppc           \* position of the caller of the project middleware

reconVars == <<mode, tree, tree0, id, snapshot, snapshot0, panicked, patch, added0,
               added, upd_idx, update, children_ids, removed_ids, added_ids, patch2,
               change, nextId, pc>>

projVars == <<vfs, request, result, started, ppc>>

vars == <<reconVars, projVars>>

\* ------------------------------------------------------------ initial states
RECURSIVE InsertAll(_, _, _, _)
InsertAll(t, parent_id, props_seq, first_id) ==
    IF props_seq = <<>> THEN t
    ELSE InsertAll(insert_instance(t, Head(props_seq), parent_id, first_id),
                   parent_id, Tail(props_seq), first_id + 1)

Folder(name) == RbxInstanceProperties(name, "Folder", NoProps)

Injective(s) == \A i, j \in 1..Len(s) : s[i] = s[j] => i = j

\* trees of the sync cycles: the root of the test `simple`, with any
\* properties, and up to MaxChildren Folder children
SyncTrees ==
    {InsertAll(RbxTree_new(RbxInstanceProperties("DataModel", "DataModel", p)), RootId,
               [i \in 1..Len(cs) |-> Folder(cs[i])], RootId + 1) :
        p \in PropMaps,
        cs \in {s \in SeqsUpTo(ChildNames, MaxChildren) : Injective(s)}}

LeafSnapshot(name, p) == RbxSnapshotInstance(name, "Folder", p, <<>>, FALSE)

Snapshots ==
    {RbxSnapshotInstance(n, c, p, [i \in 1..Len(cs) |-> LeafSnapshot(cs[i], NoProps)], ign) :
        n \in Names, c \in Classes, p \in PropMaps,
        cs \in SeqsUpTo(ChildNames, MaxChildren), ign \in BOOLEAN}

\* the tree the hand-built patches are applied to: root 1 with children 2, 3
\* and a grandchild 4 under 2
PatchTree ==
    LET t1 == InsertAll(RbxTree_new(RbxInstanceProperties("DataModel", "DataModel", NoProps)),
                        RootId, <<Folder("Hi"), Folder("Lo")>>, 2)
    IN insert_instance(t1, Folder("Deep"), 2, 4)

\* ids a hand-built patch may name: live ones, and ones minted for `added`
AddedIdPool == {10, 11}
UpdateIdPool == {RootId, 2, 10}
ChildIdPool == {2, 3, 4, 10, 11}

SetMax(S) == CHOOSE x \in S : \A y \in S : y <= x

\* the `added` maps of the hand-built patches
GivenAdded ==
    {[i \in ks |-> Folder("New")] : ks \in {{10}, AddedIdPool}}

\* the entries of `updated` of the hand-built patches
GivenUpdates ==
    {Update(i, [InstancePatch_default EXCEPT !.changed_children = cc]) :
        i \in UpdateIdPool,
        cc \in {None} \cup {Some(l) : l \in SeqsUpTo(ChildIdPool, MaxNewLen)}}

NoUpdate == Update(0, InstancePatch_default)

\* ------------------------------------------------- edits of the source tree
NoChange == [kind |-> "none", at |-> 0, key |-> ""]

\* the property maps that differ from p in exactly one key
OneKeyEdits(p) ==
    {<<k, q>> \in Keys \X PropMaps :
        /\ q # p
        /\ \A j \in Keys \ {k} : (j \in DOMAIN q <=> j \in DOMAIN p)
                                 /\ (j \in DOMAIN p => q[j] = p[j])}

\* snapshots that differ from s in one property of the root (at = 0) or of
\* the child at position `at`
PropertyEdits(s) ==
    {<<[kind |-> "property", at |-> 0, key |-> e[1]],
       [s EXCEPT !.properties = e[2]]>> : e \in OneKeyEdits(s.properties)}
    \cup UNION {
        {<<[kind |-> "property", at |-> i, key |-> e[1]],
           [s EXCEPT !.children[i].properties = e[2]]>> :
            e \in OneKeyEdits(s.children[i].properties)} : i \in 1..Len(s.children)}

ChildKey(c) == <<c.class_name, c.name>>

\* snapshots whose children are those of s in another order (keys unique)
OrderEdits(s) ==
    LET n == Len(s.children) IN
    IF \E i, j \in 1..n : i # j /\ ChildKey(s.children[i]) = ChildKey(s.children[j])
    THEN {}
    ELSE {<<[kind |-> "order", at |-> 0, key |-> ""],
            [s EXCEPT !.children = [i \in 1..n |-> s.children[f[i]]]]>> :
            f \in {g \in [1..n -> 1..n] :
                      /\ \A i, j \in 1..n : g[i] = g[j] => i = j
                      /\ \E i \in 1..n : g[i] # i}}

DummySnapshot == RbxSnapshotInstance("DataModel", "DataModel", NoProps, <<>>, FALSE)

Init ==
    /\ mode \in {"sync", "patch"}
    /\ \/ mode = "sync" /\ tree \in SyncTrees /\ snapshot \in Snapshots
       \/ mode = "patch" /\ tree = PatchTree /\ snapshot = DummySnapshot
    /\ tree0 = tree
    /\ id \in IF mode = "sync" THEN Live(tree) ELSE {tree.root_id}
    /\ change = NoChange
    /\ snapshot0 = snapshot
    /\ panicked = None
    /\ patch = TreePatch_default
    /\ added0 = TreePatch_default.added
    /\ added = TreePatch_default.added
    /\ upd_idx = 0
    /\ update = NoUpdate
    /\ children_ids = <<>>
    /\ removed_ids = <<>>
    /\ added_ids = <<>>
    /\ patch2 = TreePatch_default
    /\ nextId = SetMax(AddedIdPool) + 1
    /\ pc = "start"
    /\ vfs = <<>>
    /\ request = <<>>
    /\ result = Ok(None)
    /\ started = "no"
    /\ ppc = "off"

\* ------------------------------------------------------------------ actions
\* compute_patch(&tree, id, &snapshot), as start_with_module_name calls it
ComputePatch ==
    /\ pc = "start" /\ mode = "sync"
    /\ LET r == compute_patch(tree, id, snapshot) IN
        /\ patch' = r.patch
        /\ added0' = r.patch.added
        /\ panicked' = IF r.panicked THEN Some("class_name shouldn't change") ELSE None
        /\ pc' = IF r.panicked THEN "panicked" ELSE "computed"
    /\ tree0' = tree
    /\ UNCHANGED <<mode, tree, id, snapshot, snapshot0, added, upd_idx, update,
                   children_ids, removed_ids, added_ids, patch2, change, nextId>>
    /\ UNCHANGED projVars

\* a caller builds a TreePatch by hand: its `added` map is fixed here, the
\* entries of `updated` are drawn as the loop of apply_patch reaches them
GivePatch ==
    /\ pc = "start" /\ mode = "patch"
    /\ added0' \in GivenAdded
    /\ pc' = "computed"
    /\ tree0' = tree
    /\ UNCHANGED <<mode, tree, id, snapshot, snapshot0, panicked, patch, added,
                   upd_idx, update, children_ids, removed_ids, added_ids, patch2,
                   change, nextId>>
    /\ UNCHANGED projVars

\* apply_patch(&mut tree, tree_patch): entry
ApplyBegin ==
    /\ pc = "computed"
    /\ added' = added0
    /\ upd_idx' = 1
    /\ pc' = "loop"
    /\ UNCHANGED <<mode, tree, tree0, id, snapshot, snapshot0, panicked, patch, added0,
                   update, children_ids, removed_ids, added_ids, patch2, change, nextId>>
    /\ UNCHANGED projVars

\* what tree_patch.updated.into_iter() yields next
NextUpdates ==
    IF mode = "sync"
    THEN IF upd_idx <= Len(patch.updated) THEN {patch.updated[upd_idx]} ELSE {}
    ELSE IF upd_idx <= MaxUpdates THEN GivenUpdates ELSE {}

\* lines 113-151 for one entry of tree_patch.updated: the in-place changes,
\* then the removed/added lists of the children change
UpdateInstance ==
    /\ pc = "loop"
    /\ \E u \in NextUpdates :
       LET t1 == update_instance(tree, u.id, u.patch) IN
          /\ update' = u
          /\ tree' = t1
          /\ IF u.patch.changed_children = None
             THEN /\ upd_idx' = upd_idx + 1
                  /\ UNCHANGED <<pc, panicked, children_ids, removed_ids, added_ids>>
             ELSE IF get_instance(t1, u.id) = None
             THEN \* line 131: unwrap() on None
                  /\ pc' = "panicked"
                  /\ panicked' = Some("get_instance(id).unwrap()")
                  /\ UNCHANGED <<upd_idx, children_ids, removed_ids, added_ids>>
             ELSE /\ children_ids' = t1.instances[u.id].children
                  /\ removed_ids' = removed_ids_of(children_ids', u.patch.changed_children[1])
                  /\ added_ids' = added_ids_of(children_ids', u.patch.changed_children[1])
                  /\ pc' = "children"
                  /\ UNCHANGED <<upd_idx, panicked>>
    /\ UNCHANGED <<mode, tree0, id, snapshot, snapshot0, patch, added0, added, patch2,
                   change, nextId>>
    /\ UNCHANGED projVars

\* lines 153-155, one iteration
RemoveChild ==
    /\ pc = "children" /\ removed_ids # <<>>
    /\ tree' = remove_instance(tree, Head(removed_ids))
    /\ removed_ids' = Tail(removed_ids)
    /\ UNCHANGED <<mode, tree0, id, snapshot, snapshot0, panicked, patch, added0, added,
                   upd_idx, update, children_ids, added_ids, patch2, change, nextId, pc>>
    /\ UNCHANGED projVars

\* lines 157-160, one iteration: the instance is taken out of `added` and
\* inserted under the updated instance, where the tree gives it a fresh id
InsertChild ==
    /\ pc = "children" /\ removed_ids = <<>> /\ added_ids # <<>>
    /\ Head(added_ids) \in DOMAIN added
    /\ tree' = insert_instance(tree, added[Head(added_ids)],
                               insert_parent(update.id, Head(added_ids)), nextId)
    /\ nextId' = nextId + 1
    /\ added' = map_remove(added, Head(added_ids))
    /\ added_ids' = Tail(added_ids)
    /\ UNCHANGED <<mode, tree0, id, snapshot, snapshot0, panicked, patch, added0,
                   upd_idx, update, children_ids, removed_ids, patch2, change, pc>>
    /\ UNCHANGED projVars

\* line 158: added.remove(&added_id).unwrap() on None
InsertPanic ==
    /\ pc = "children" /\ removed_ids = <<>> /\ added_ids # <<>>
    /\ Head(added_ids) \notin DOMAIN added
    /\ pc' = "panicked"
    /\ panicked' = Some("added.remove(id).unwrap()")
    /\ UNCHANGED <<mode, tree, tree0, id, snapshot, snapshot0, patch, added0, added,
                   upd_idx, update, children_ids, removed_ids, added_ids, patch2,
                   change, nextId>>
    /\ UNCHANGED projVars

\* end of the body of the loop over tree_patch.updated
NextUpdate ==
    /\ pc = "children" /\ removed_ids = <<>> /\ added_ids = <<>>
    /\ upd_idx' = upd_idx + 1
    /\ pc' = "loop"
    /\ UNCHANGED <<mode, tree, tree0, id, snapshot, snapshot0, panicked, patch, added0,
                   added, update, children_ids, removed_ids, added_ids, patch2, change,
                   nextId>>
    /\ UNCHANGED projVars

\* apply_patch returns: tree_patch.updated is exhausted (a hand-built one
\* has at least one entry)
ApplyDone ==
    /\ pc = "loop"
    /\ IF mode = "sync" THEN upd_idx > Len(patch.updated) ELSE upd_idx > 1
    /\ pc' = "applied"
    /\ UNCHANGED <<mode, tree, tree0, id, snapshot, snapshot0, panicked, patch, added0,
                   added, upd_idx, update, children_ids, removed_ids, added_ids, patch2,
                   change, nextId>>
    /\ UNCHANGED projVars

\* a second sync over the same source: compute_patch on the patched tree
Recompute ==
    /\ pc = "applied" /\ mode = "sync"
    /\ patch2' = compute_patch(tree, id, snapshot).patch
    /\ pc' = "rechecked"
    /\ UNCHANGED <<mode, tree, tree0, id, snapshot, snapshot0, panicked, patch, added0,
                   added, upd_idx, update, children_ids, removed_ids, added_ids, change,
                   nextId>>
    /\ UNCHANGED projVars

\* the source changes between two syncs (one property of one instance, or
\* the order of the children) and the next sync starts on the new snapshot
Resnapshot ==
    /\ pc = "rechecked" /\ change = NoChange
    /\ patch2 = TreePatch_default
    /\ \E e \in PropertyEdits(snapshot) \cup OrderEdits(snapshot) :
        /\ change' = e[1]
        /\ snapshot' = e[2]
    /\ snapshot0' = snapshot
    /\ pc' = "start"
    /\ UNCHANGED <<mode, tree, tree0, id, panicked, patch, added0, added, upd_idx,
                   update, children_ids, removed_ids, added_ids, patch2, nextId>>
    /\ UNCHANGED projVars

Next ==
    \/ ComputePatch
    \/ GivePatch
    \/ ApplyBegin
    \/ UpdateInstance
    \/ RemoveChild
    \/ InsertChild
    \/ InsertPanic
    \/ NextUpdate
    \/ ApplyDone
    \/ Recompute
    \/ Resnapshot

Spec == Init /\ [][Next]_vars

\* ================================================================== claims
\* ---- helpers of the claims
\* the strictly increasing maps of 1..m into 1..n
Embeddings(m, n) ==
    {f \in [1..m -> 1..n] : \A i, j \in 1..m : i < j => f[i] < f[j]}

\* the subtree of t rooted at i is equal to snapshot s: same name, class and
\* properties, and the children are those of s in order, recursively; where
\* s sets ignore_unknown_instances, unknown children may sit in between
RECURSIVE SubtreeMatches(_, _, _)
SubtreeMatches(t, i, s) ==
    /\ i \in Live(t)
    /\ t.instances[i].name = s.name
    /\ t.instances[i].class_name = s.class_name
    /\ t.instances[i].properties = s.properties
    /\ LET cs == t.instances[i].children IN
        /\ ~s.metadata.ignore_unknown_instances => Len(cs) = Len(s.children)
        /\ \E f \in Embeddings(Len(s.children), Len(cs)) :
              \A j \in 1..Len(s.children) : SubtreeMatches(t, cs[f[j]], s.children[j])

InstanceKey(t, i) == <<t.instances[i].class_name, t.instances[i].name>>

\* children of instance i that have the key of no child of snapshot s
UnmatchedChildren(t, i, s) ==
    {c \in Range(t.instances[i].children) :
        \A j \in 1..Len(s.children) : ChildKey(s.children[j]) # InstanceKey(t, c)}

\* positions of the children of s that pair with no child of instance i:
\* equal keys pair positionally, in order
UnpairedPositions(t, i, s) ==
    {j \in 1..Len(s.children) :
        Cardinality({c \in 1..j : ChildKey(s.children[c]) = ChildKey(s.children[j])})
        > Cardinality({c \in 1..Len(t.instances[i].children) :
                InstanceKey(t, t.instances[i].children[c]) = ChildKey(s.children[j])})}

UpdatesOf(p, i) == {k \in 1..Len(p.updated) : p.updated[k].id = i}

\* C1: after apply_patch(T, compute_patch(T, id, S)) the subtree of T at id
\* is equal to S (name, class, properties, ordered children, recursively),
\* up to identifiers and children kept by ignore_unknown_instances.
C1_RoundTrip ==
    (mode = "sync" /\ pc = "applied") => SubtreeMatches(tree, id, snapshot)

\* C2: a second compute_patch over the same snapshot, on the tree the first
\* patch was applied to, returns the empty patch.
C2_Idempotent ==
    pc = "rechecked" => (patch2.updated = <<>> /\ DOMAIN patch2.added = {})

\* the number of instances of a snapshot
RECURSIVE SnapshotSize(_)
SnapshotSize(s) ==
    IF s.children = <<>> THEN 1
    ELSE 1 + SnapshotSize(Head(s.children))
           + (SnapshotSize([s EXCEPT !.children = Tail(@)]) - 1)

\* C3: when the class of T[id] differs from the snapshot's, compute_patch
\* completes (no abort) and its patch replaces the subtree: the snapshot and
\* its descendants are in `added`, and no in-place update is emitted for id.
\* (TreePatch has no field that could list id for removal.)
C3_ClassReplace ==
    (mode = "sync" /\ pc # "start"
     /\ tree.instances[id].class_name # snapshot.class_name)
    => /\ panicked = None
       /\ Cardinality(DOMAIN patch.added) = SnapshotSize(snapshot)
       /\ UpdatesOf(patch, id) = {}

\* C4: a child of id that matches no child of the snapshot is still a child
\* of id after the sync when ignore_unknown_instances is set, and is gone
\* from the tree when it is not.  (RbxTree instances carry no metadata: the
\* flag is the one of the snapshot the instance is synced to.)
C4_IgnoreUnknown ==
    (mode = "sync" /\ pc = "applied") =>
        \A c \in UnmatchedChildren(tree0, id, snapshot) :
            IF snapshot.metadata.ignore_unknown_instances
            THEN c \in Range(tree.instances[id].children)
            ELSE c \notin Live(tree)

\* C5: T in sync with S (compute_patch empty, and here also equal to S as a
\* subtree) and S' = S with one property
\* of one instance changed: compute_patch(T, id, S') adds nothing and has
\* exactly one update, on the changed instance, with exactly that key.
C5_Minimal ==
    (mode = "sync" /\ pc = "computed" /\ change.kind = "property"
     /\ SubtreeMatches(tree, id, snapshot0)) =>
        /\ DOMAIN patch.added = {}
        /\ Len(patch.updated) = 1
        /\ LET u == patch.updated[1] IN
            /\ IF change.at = 0 THEN u.id = id
               ELSE /\ u.id \in Range(tree.instances[id].children)
                    /\ InstanceKey(tree, u.id) = ChildKey(snapshot.children[change.at])
            /\ DOMAIN u.patch.changed_properties = {change.key}
            /\ u.patch.changed_name = None
            /\ u.patch.changed_children = None

\* C6: every snapshot child paired with no existing child of T[id] is an
\* added entry of the patch, under an id that is not live in T, and the
\* update of id carries changed_children naming it.
C6_AddedChildren ==
    (mode = "sync" /\ pc = "computed") =>
        \A j \in UnpairedPositions(tree, id, snapshot) :
            \E a \in DOMAIN patch.added \ Live(tree) :
                /\ patch.added[a].name = snapshot.children[j].name
                /\ patch.added[a].class_name = snapshot.children[j].class_name
                /\ \E k \in UpdatesOf(patch, id) :
                    /\ patch.updated[k].patch.changed_children # None
                    /\ a \in Range(patch.updated[k].patch.changed_children[1])

\* C7: T in sync with S and S' = S with the children permuted: the patch
\* adds nothing and has exactly one update, on the parent, with no name or
\* property change, whose changed_children lists the existing children in
\* the order of S'.
C7_OrderOnly ==
    (mode = "sync" /\ pc = "computed" /\ change.kind = "order"
     /\ SubtreeMatches(tree, id, snapshot0)
     /\ Len(tree.instances[id].children) = Len(snapshot0.children)) =>
        /\ DOMAIN patch.added = {}
        /\ Len(patch.updated) = 1
        /\ LET u == patch.updated[1]
               cs == tree.instances[id].children IN
            /\ u.id = id
            /\ u.patch.changed_name = None
            /\ DOMAIN u.patch.changed_properties = {}
            /\ u.patch.changed_children # None
            /\ Len(u.patch.changed_children[1]) = Len(snapshot.children)
            /\ \A j \in 1..Len(snapshot.children) :
                /\ u.patch.changed_children[1][j] \in Range(cs)
                /\ InstanceKey(tree, u.patch.changed_children[1][j])
                     = ChildKey(snapshot.children[j])

\* C8: once apply_patch has processed an update of a live id with
\* changed_children = L, every element of L being a current child of id or
\* a key of patch.added, the children list of id is exactly L.
C8_ChildrenAreL ==
    (pc = "loop" /\ upd_idx > 1 /\ update.patch.changed_children # None) =>
        LET L == update.patch.changed_children[1] IN
        (Range(L) \subseteq Range(children_ids) \cup DOMAIN added0)
            => tree.instances[update.id].children = L

\* ---- the tree invariants
OneRoot(t) ==
    {i \in Live(t) : t.instances[i].parent = None} = {t.root_id}

ParentsLive(t) ==
    \A i \in Live(t) \ {t.root_id} :
        /\ t.instances[i].parent # None
        /\ t.instances[i].parent[1] \in Live(t)
        /\ LET cs == t.instances[t.instances[i].parent[1]].children IN
            Cardinality({k \in 1..Len(cs) : cs[k] = i}) = 1

\* C9: in every state during and after apply_patch, for every patch, also
\* one that stops application on a failure: there is exactly one root, every
\* other instance has a live parent whose children list holds it once.
C9_TreeInvariants == OneRoot(tree) /\ ParentsLive(tree)

\* C9 witness: application stopped on a failure after the tree was changed
C9_Witness ==
    /\ pc = "panicked" /\ mode = "patch"
    /\ panicked = Some("added.remove(id).unwrap()")
    /\ Live(tree) # Live(tree0)
    /\ \E i \in Live(tree0) : i \notin Live(tree)

\* C10: after apply_patch(T, P) has completed, every entry of P.added is a
\* live instance of T under the id it is keyed by, with the entry's content.
C10_AddedInserted ==
    pc = "applied" =>
        \A a \in DOMAIN added0 :
            /\ a \in Live(tree)
            /\ tree.instances[a].name = added0[a].name
            /\ tree.instances[a].class_name = added0[a].class_name
            /\ tree.instances[a].properties = added0[a].properties

\* ============================== the project middleware as a state machine
MaxDeclared == 2

\* ---- the files of the project folder
FooDir == <<FileName("foo", "")>>
DefaultProjectPath == join(FooDir, <<FileName("default", "project.json")>>)
OtherProjectPath == join(FooDir, <<FileName("other", "project.json")>>)
OtherTxtPath == join(FooDir, <<FileName("other", "txt")>>)
LockedTxtPath == join(FooDir, <<FileName("locked", "txt")>>)
DataBinPath == join(FooDir, <<FileName("data", "bin")>>)
SubDirPath == join(FooDir, <<FileName("sub", "")>>)
SubATxtPath == join(SubDirPath, <<FileName("a", "txt")>>)
MissingPath == join(FooDir, <<FileName("missing", "txt")>>)

\* ---- the manifests
DeclaredNameSeq == <<"a", "b", "c", "d">>
DeclaredNames == {DeclaredNameSeq[i] : i \in 1..MaxDeclared}

NodeClasses == {None, Some("Folder"), Some("StringValue")}

NodePaths ==
    {None,
     Some(RelativePath(<<FileName("other", "project.json")>>)),
     Some(RelativePath(<<FileName("other", "txt")>>)),
     Some(RelativePath(<<FileName("locked", "txt")>>)),
     Some(RelativePath(<<FileName("data", "bin")>>)),
     Some(RelativePath(<<FileName("sub", "")>>)),
     Some(RelativePath(<<>>)),
     Some([relative |-> FALSE, parts |-> MissingPath])}

NodeProperties ==
    {NoProps,
     [k \in {"Value"} |-> Bare("string", "Changed")],
     [k \in {"Value"} |-> Bare("number", "5")],
     [k \in {"Value"} |-> Tagged("String", "string", "Hello, world!")]}

NodeIgnores == {None, Some(TRUE), Some(FALSE)}

\* the nodes declared as children
LeafNode == ProjectNode(Some("Model"), None, NoProps, None, <<>>)
UnclassedNode == ProjectNode(None, None, NoProps, None, <<>>)
TxtNode ==
    ProjectNode(None, Some(RelativePath(<<FileName("other", "txt")>>)), NoProps, None, <<>>)
DeclaredNodes == {TxtNode, UnclassedNode}

\* the children maps of a node: up to MaxDeclared entries with distinct names
DeclaredChildren ==
    {c \in SeqsUpTo(DeclaredNames \X DeclaredNodes, MaxDeclared) :
        \A i, j \in 1..Len(c) : i # j => c[i][1] # c[j][1]}

RootNodes ==
    {ProjectNode(c, p, pr, ig, ch) :
        c \in NodeClasses, p \in NodePaths, pr \in NodeProperties,
        ig \in NodeIgnores, ch \in DeclaredChildren}

\* what other.project.json holds
OtherProjects ==
    {Project("other", ProjectNode(Some("StringValue"), None,
                [k \in {"Value"} |-> Bare("string", "Original")], None, <<>>)),
     Project("other", ProjectNode(Some("Folder"), None, NoProps, None,
                <<<<"SomeChild", LeafNode>>>>)),
     Project("other", ProjectNode(None,
                Some(RelativePath(<<FileName("default", "project.json")>>)),
                NoProps, None, <<>>))}

\* what default.project.json is: a project, not there, not JSON, not
\* readable, not examinable
DefaultEntries ==
    {Some(ProjectFile(Project("root", n))) : n \in RootNodes}
    \cup {None,
          Some(TextFile("{")),
          Some(Unreadable(ProjectFile(Project("root", LeafNode)))),
          Some(Broken(ProjectFile(Project("root", LeafNode))))}

\* the file system with `default` as default.project.json and `other` as
\* other.project.json
Layout(default, other) ==
    LET fixed ==
            (FooDir :> DirEntry(
                (IF default = None THEN <<>> ELSE <<FileName("default", "project.json")>>)
                \o <<FileName("other", "project.json"), FileName("other", "txt"),
                     FileName("data", "bin"), FileName("sub", "")>>))
            @@ (OtherProjectPath :> ProjectFile(other))
            @@ (OtherTxtPath :> TextFile("Hello, world!"))
            @@ (LockedTxtPath :> Unreadable(TextFile("secret")))
            @@ (DataBinPath :> Unreadable(TextFile("")))
            @@ (SubDirPath :> DirEntry(<<FileName("a", "txt")>>))
            @@ (SubATxtPath :> TextFile("a"))
    IN IF default = None THEN fixed ELSE (DefaultProjectPath :> default[1]) @@ fixed

Layouts == {Layout(d, o) : d \in DefaultEntries, o \in OtherProjects}

Requests == {FooDir, DefaultProjectPath, LockedTxtPath, MissingPath}

InitProject ==
    /\ vfs \in Layouts
    /\ request \in Requests
    /\ result = Ok(None)
    /\ started = "no"
    /\ ppc = "init"
    /\ mode = "off"
    /\ tree = PatchTree
    /\ tree0 = tree
    /\ id = tree.root_id
    /\ snapshot = DummySnapshot
    /\ snapshot0 = snapshot
    /\ change = NoChange
    /\ panicked = None
    /\ patch = TreePatch_default
    /\ added0 = TreePatch_default.added
    /\ added = TreePatch_default.added
    /\ upd_idx = 0
    /\ update = NoUpdate
    /\ children_ids = <<>>
    /\ removed_ids = <<>>
    /\ added_ids = <<>>
    /\ patch2 = TreePatch_default
    /\ nextId = SetMax(AddedIdPool) + 1
    /\ pc = "off"

\* SnapshotProject::from_vfs(&context, &mut vfs, &request), as the tests of
\* project.rs call it
FromVfs ==
    /\ ppc = "init"
    /\ result' = from_vfs(vfs, request, {})
    /\ ppc' = "returned"
    /\ UNCHANGED <<vfs, request, started>>
    /\ UNCHANGED reconVars

\* start_with_module_name up to the snapshot (common_setup.rs lines 44-54):
\* vfs.get(path).expect(..), then snapshot_from_vfs(..).expect(..).expect(..)
StartSnapshot ==
    /\ ppc = "init"
    /\ LET entry == vfs_metadata(vfs, request)
           r == IF entry.kind # "ok" THEN Panic("could not get project path")
                ELSE snapshot_from_vfs(vfs, request, {})
       IN /\ result' = r
          /\ started' =
                IF entry.kind # "ok" THEN "panicked"
                ELSE IF r.kind = "diverge" THEN "overflowed"
                ELSE IF r.kind # "ok" \/ r.value = None THEN "panicked"
                ELSE "snapshotted"
    /\ ppc' = "start"
    /\ UNCHANGED <<vfs, request>>
    /\ UNCHANGED reconVars

\* start_with_module_name, lines 56-62: the patch set is computed and applied
StartPatch ==
    /\ ppc = "start" /\ started = "snapshotted"
    /\ started' = "applied"
    /\ ppc' = "returned"
    /\ UNCHANGED <<vfs, request, result>>
    /\ UNCHANGED reconVars

NextProject ==
    \/ FromVfs
    \/ StartSnapshot
    \/ StartPatch

SpecProject == InitProject /\ [][NextProject]_vars

\* ------------------------------------------ claims: the project middleware
\* the call has been made and `result` holds its outcome
Called == ppc # "init"

\* the request leads to default.project.json, which holds a project
LoadsDefault ==
    /\ request \in {FooDir, DefaultProjectPath}
    /\ DefaultProjectPath \in DOMAIN vfs
    /\ ~vfs[DefaultProjectPath].broken
    /\ vfs[DefaultProjectPath].readable
    /\ vfs[DefaultProjectPath].json # None

\* the root node of that project
RootNode == vfs[DefaultProjectPath].json[1].tree

\* what the $path of a node of that project yields
PathSnapshot(node) ==
    IF node.path = None THEN Ok(None)
    ELSE snapshot_from_vfs(vfs,
            IF node.path[1].relative THEN join(FooDir, node.path[1].parts)
            ELSE node.path[1].parts,
            {DefaultProjectPath})

\* the $path of the node yields a snapshot
YieldsSnapshot(node) ==
    PathSnapshot(node).kind = "ok" /\ PathSnapshot(node).value # None

\* the $path of the node is absent or yields nothing
YieldsNothing(node) ==
    PathSnapshot(node).kind = "ok" /\ PathSnapshot(node).value = None

\* the call returned a snapshot
ReturnedSnapshot == result.kind = "ok" /\ result.value # None

\* C11: when a node gives both $className and a $path that yields a
\* snapshot, the class is $className if the path's class is Folder, and
\* otherwise the call returns a ClassMixViolation error and no snapshot
C11_ClassMix ==
    (Called /\ LoadsDefault /\ RootNode.class_name # None /\ YieldsSnapshot(RootNode))
    => IF PathSnapshot(RootNode).value[1].class_name = "Folder"
       THEN ReturnedSnapshot => result.value[1].class_name = RootNode.class_name[1]
       ELSE result.kind = "err" /\ result.error = "ClassMixViolation"

\* the node has no $className and nothing its class could come from
Unclassed(node) == node.class_name = None /\ YieldsNothing(node)

\* lines 116-162 give the node a class: no class mix, and not Unclassed
ClassResolves(node) ==
    /\ PathSnapshot(node).kind = "ok"
    /\ ~Unclassed(node)
    /\ (node.class_name # None /\ YieldsSnapshot(node))
            => PathSnapshot(node).value[1].class_name = "Folder"

\* C12: a node, at any depth, with no $className and no $path (or a $path
\* that yields nothing) makes the call return a MissingClass error; a
\* $className with a $path that yields nothing gives the class $className;
\* a $path alone gives the class of its snapshot
C12_MissingClass ==
    (Called /\ LoadsDefault)
    => /\ Unclassed(RootNode)
            => result.kind = "err" /\ result.error = "MissingClass"
       /\ (ClassResolves(RootNode)
           /\ \E i \in 1..Len(RootNode.children) : Unclassed(RootNode.children[i][2]))
            => result.kind = "err" /\ result.error = "MissingClass"
       /\ (RootNode.class_name # None /\ YieldsNothing(RootNode) /\ ReturnedSnapshot)
            => result.value[1].class_name = RootNode.class_name[1]
       /\ (RootNode.class_name = None /\ YieldsSnapshot(RootNode) /\ ReturnedSnapshot)
            => result.value[1].class_name = PathSnapshot(RootNode).value[1].class_name

\* the nodes of the project with the snapshots made of them: the root, and
\* below each node its declared children, which lines 164-170 push last
RECURSIVE NodeSnapshots(_, _)
NodeSnapshots(node, snap) ==
    {<<node, snap>>}
    \cup UNION {NodeSnapshots(node.children[i][2],
                    snap.children[Len(snap.children) - Len(node.children) + i]) :
                i \in 1..Len(node.children)}

\* the properties, children and metadata a node starts from: those of its
\* $path snapshot, if it has one
PathProperties(node) ==
    IF YieldsSnapshot(node) THEN PathSnapshot(node).value[1].properties ELSE NoProps
PathChildren(node) ==
    IF YieldsSnapshot(node) THEN PathSnapshot(node).value[1].children ELSE <<>>

\* C13: the properties of a node's snapshot are those of its $path snapshot
\* overlaid by its resolved $properties: a key of $properties has the
\* resolved manifest value, a key of the path snapshot alone keeps its
\* value, and there is no other key
C13_PropertiesOverlay ==
    (Called /\ LoadsDefault /\ ReturnedSnapshot)
    => \A ns \in NodeSnapshots(RootNode, result.value[1]) :
        LET node == ns[1]
            snap == ns[2]
        IN /\ DOMAIN snap.properties =
                    DOMAIN PathProperties(node) \cup DOMAIN node.properties
           /\ \A k \in DOMAIN node.properties :
                snap.properties[k] =
                    try_resolve_value(snap.class_name, k, node.properties[k]).value
           /\ \A k \in DOMAIN PathProperties(node) \ DOMAIN node.properties :
                snap.properties[k] = PathProperties(node)[k]

\* a project whose $path yields Value = "Original" and whose $properties
\* set Value to "Changed" has been snapshotted
C13_Witness ==
    /\ Called /\ LoadsDefault /\ ReturnedSnapshot
    /\ "Value" \in DOMAIN PathProperties(RootNode)
    /\ PathProperties(RootNode)["Value"].Value = "Original"
    /\ "Value" \in DOMAIN RootNode.properties
    /\ result.value[1].properties["Value"] = [Type |-> "String", Value |-> "Changed"]

C15_IgnoreUnknown ==
    (Called /\ LoadsDefault /\ ReturnedSnapshot)
    => \A ns \in NodeSnapshots(RootNode, result.value[1]) :
        LET node == ns[1]
            ignore == ns[2].metadata.ignore_unknown_instances
        IN /\ node.ignore_unknown_instances # None
                => ignore = node.ignore_unknown_instances[1]
           /\ (node.ignore_unknown_instances = None /\ node.path = None)
                => ignore = TRUE
           /\ (node.ignore_unknown_instances = None /\ YieldsSnapshot(node))
                => ignore = PathSnapshot(node).value[1].metadata.ignore_unknown_instances

\* a root {"$className": "Folder"} has been snapshotted, and it declares a
\* child whose $path snapshot does not ignore unknown instances
C15_Witness ==
    /\ Called /\ LoadsDefault /\ ReturnedSnapshot
    /\ RootNode.class_name = Some("Folder")
    /\ RootNode.path = None
    /\ RootNode.ignore_unknown_instances = None
    /\ result.value[1].metadata.ignore_unknown_instances
    /\ \E i \in 1..Len(RootNode.children) :
        /\ YieldsSnapshot(RootNode.children[i][2])
        /\ ~result.value[1].children[i].metadata.ignore_unknown_instances

\* C16: the snapshot snapshot_project_node returns for a node, with or
\* without $path, has the instigating source ProjectNode(project folder,
\* node name, the node); in what from_vfs returns for a project file the
\* root has Path(the project file) instead, and the declared nodes below it
\* keep ProjectNode
C16_InstigatingSource ==
    (Called /\ LoadsDefault /\ ReturnedSnapshot)
    => /\ snapshot_project_node(vfs, FooDir, "root", RootNode, {DefaultProjectPath})
                .value[1].metadata.instigating_source
            = Some(SourceProjectNode(FooDir, "root", RootNode))
       /\ result.value[1].metadata.instigating_source = Some(SourcePath(DefaultProjectPath))
       /\ \A ns \in NodeSnapshots(RootNode, result.value[1]) \ {<<RootNode, result.value[1]>>} :
            ns[2].metadata.instigating_source
                = Some(SourceProjectNode(FooDir, ns[2].name, ns[1]))

\* a project whose root has a $path to another project file, and which
\* declares a child with a $path, has been snapshotted
C16_Witness ==
    /\ Called /\ LoadsDefault /\ ReturnedSnapshot
    /\ RootNode.path = Some(RelativePath(<<FileName("other", "project.json")>>))
    /\ PathSnapshot(RootNode).value[1].metadata.instigating_source
            = Some(SourcePath(OtherProjectPath))
    /\ \E i \in 1..Len(RootNode.children) : RootNode.children[i][2].path # None

\* the snapshots below a snapshot
RECURSIVE DescendantSnapshots(_)
DescendantSnapshots(snap) ==
    UNION {{snap.children[i]} \cup DescendantSnapshots(snap.children[i]) :
            i \in 1..Len(snap.children)}

\* C17: the root of the snapshot of a project file F has F among its
\* relevant paths, and no snapshot below the root has
C17_RelevantPaths ==
    (Called /\ LoadsDefault /\ ReturnedSnapshot)
    => /\ DefaultProjectPath \in Range(result.value[1].metadata.relevant_paths)
       /\ \A d \in DescendantSnapshots(result.value[1]) :
            DefaultProjectPath \notin Range(d.metadata.relevant_paths)
       /\ RootNode.path = Some(RelativePath(<<FileName("other", "project.json")>>))
            => /\ OtherProjectPath \in Range(PathSnapshot(RootNode).value[1].metadata.relevant_paths)
               /\ \A d \in DescendantSnapshots(PathSnapshot(RootNode).value[1]) :
                    OtherProjectPath \notin Range(d.metadata.relevant_paths)

\* a project has been snapshotted whose root took relevant paths from its
\* $path and which declares a child that has relevant paths of its own
C17_Witness ==
    /\ Called /\ LoadsDefault /\ ReturnedSnapshot
    /\ Len(result.value[1].metadata.relevant_paths) > 1
    /\ \E i \in 1..Len(RootNode.children) :
        LET child == result.value[1].children[Len(PathChildren(RootNode)) + i]
        IN child.metadata.relevant_paths = <<OtherTxtPath>>

\* the $path of the root of default.project.json leads back to it: it is
\* the project folder, or other.project.json whose root has a $path to
\* default.project.json
PathCycle ==
    \/ RootNode.path = Some(RelativePath(<<>>))
    \/ /\ RootNode.path = Some(RelativePath(<<FileName("other", "project.json")>>))
       /\ vfs[OtherProjectPath].json[1].tree.path =
            Some(RelativePath(<<FileName("default", "project.json")>>))

\* C18: on project files whose $paths lead back to themselves, from_vfs
\* stops and returns a ProjectCycle error
C18_ProjectCycle ==
    (Called /\ LoadsDefault /\ PathCycle)
    => result.kind = "err" /\ result.error = "ProjectCycle"

\* the class lines 116-162 give a node whose class resolves
ResolvedClass(node) ==
    IF node.class_name # None THEN node.class_name[1]
    ELSE PathSnapshot(node).value[1].class_name

\* the snapshot of the root gets as far as its $properties, and the
\* resolver rejects one of them
RootRejected ==
    /\ ClassResolves(RootNode)
    /\ snapshot_declared(vfs, FooDir, RootNode.children, {DefaultProjectPath}).kind = "ok"
    /\ \E k \in DOMAIN RootNode.properties :
        try_resolve_value(ResolvedClass(RootNode), k, RootNode.properties[k]).kind = "err"

\* C19: when the resolver rejects a $properties value, the snapshot step
\* returns an UnresolvedValue error, up to the top-level start call, and no
\* patch is computed or applied
C19_UnresolvedValue ==
    (Called /\ LoadsDefault /\ RootRejected)
    => /\ result.kind = "err" /\ result.error = "UnresolvedValue"
       /\ started \notin {"snapshotted", "applied"}

\* SnapshotProject::from_vfs itself was called, and has returned
FromVfsReturned == ppc = "returned" /\ started = "no"

\* C20: from_vfs on a directory without default.project.json returns
\* Ok(None); on a directory with it, what from_vfs returns on the path of
\* default.project.json; on a file not named *.project.json, Ok(None)
\* without reading the file; any other failure of the file system is
\* returned as an error
C20_ProbeAndErrors ==
    FromVfsReturned
    => /\ (request = FooDir /\ DefaultProjectPath \notin DOMAIN vfs)
            => result = Ok(None)
       /\ (request = FooDir /\ DefaultProjectPath \in DOMAIN vfs)
            => result = from_vfs(vfs, DefaultProjectPath, {})
       /\ (request \in DOMAIN vfs /\ vfs[request].kind = "file"
           /\ request \notin {DefaultProjectPath, OtherProjectPath})
            => result = Ok(None)
       /\ request \notin DOMAIN vfs
            => result.kind = "err"
       /\ (request \in {FooDir, DefaultProjectPath} /\ DefaultProjectPath \in DOMAIN vfs
           /\ (vfs[DefaultProjectPath].broken \/ ~vfs[DefaultProjectPath].readable))
            => result.kind = "err" /\ result.error = "VfsError"

\* from_vfs has returned Ok(None) for a text file that cannot be read
C20_Witness ==
    /\ FromVfsReturned
    /\ request = LockedTxtPath
    /\ vfs_read(vfs, request).kind = "err"
    /\ result = Ok(None)

\* ------------------------------------ claims: properties, name and children
\* compute_patch has returned a patch for an instance of the snapshot's class
Computed ==
    /\ mode = "sync" /\ pc = "computed"
    /\ tree.instances[id].class_name = snapshot.class_name

\* the keys on which the instance and the snapshot differ
DifferingKeys(ip, sp) ==
    {k \in DOMAIN ip \cup DOMAIN sp :
        k \notin DOMAIN ip \/ k \notin DOMAIN sp \/ ip[k] # sp[k]}

\* C21: for an instance and a snapshot of the same class, changed_properties
\* of the patch of compute_patch has None for every key of the instance the
\* snapshot lacks, Some(snapshot value) for every key of the snapshot the
\* instance lacks or holds another value for, and no other key; with no
\* such key and the same name there is no update for the instance
C21_ChangedProperties ==
    Computed =>
        LET ip == tree.instances[id].properties
            sp == snapshot.properties
        IN IF DifferingKeys(ip, sp) = {} /\ tree.instances[id].name = snapshot.name
           THEN UpdatesOf(patch, id) = {}
           ELSE /\ Cardinality(UpdatesOf(patch, id)) = 1
                /\ \A u \in UpdatesOf(patch, id) :
                    LET changed == patch.updated[u].patch.changed_properties
                    IN /\ DOMAIN changed = DifferingKeys(ip, sp)
                       /\ \A k \in DOMAIN changed :
                            changed[k] = IF k \in DOMAIN sp THEN Some(sp[k]) ELSE None

\* a patch has been computed that deletes one key and sets another, which
\* the instance does not have
C21_Witness ==
    /\ Computed
    /\ \E u \in UpdatesOf(patch, id) :
        LET changed == patch.updated[u].patch.changed_properties
        IN /\ \E k \in DOMAIN changed : changed[k] = None
           /\ \E k \in DOMAIN changed :
                changed[k] # None /\ k \notin DOMAIN tree.instances[id].properties

\* C22: when the name of T[id] differs from the snapshot's, compute_patch
\* emits an update for id whose changed_name is the snapshot's name, and
\* after apply_patch of that patch T[id] has the snapshot's name; when the
\* names are equal, changed_name is absent
C22_ChangedName ==
    /\ Computed =>
        IF tree.instances[id].name # snapshot.name
        THEN \E u \in UpdatesOf(patch, id) :
                patch.updated[u].patch.changed_name = Some(snapshot.name)
        ELSE \A u \in UpdatesOf(patch, id) :
                patch.updated[u].patch.changed_name = None
    /\ (mode = "sync" /\ pc = "applied") => tree.instances[id].name = snapshot.name

\* C23: after apply_patch(T, compute_patch(T, id, S)), S of the class of
\* T[id], the properties of T[id] are those of S, the keys S lacks being
\* deleted, and the properties of every other instance are as they were
C23_PropertiesConverge ==
    (mode = "sync" /\ pc = "applied")
    => /\ tree.instances[id].properties = snapshot.properties
       /\ \A i \in Live(tree0) \ {id} :
            /\ i \in Live(tree)
            /\ tree.instances[i].properties = tree0.instances[i].properties

\* a patch has been applied that deleted a key, set a key the instance did
\* not have, and left another instance with its properties
C23_Witness ==
    /\ mode = "sync" /\ pc = "applied"
    /\ \E k \in DOMAIN tree0.instances[id].properties :
            k \notin DOMAIN tree.instances[id].properties
    /\ \E k \in DOMAIN tree.instances[id].properties :
            k \notin DOMAIN tree0.instances[id].properties
    /\ Live(tree0) # {id}

\* the children of the updated instance that the new list names too
KeptChildren == Range(children_ids) \cap Range(update.patch.changed_children[1])

\* C24: while apply_patch processes changed_children of a live instance, a
\* child named by both the old and the new list stays a child under its id,
\* and it and its whole subtree keep name, class, properties and children;
\* an instance that goes is a child absent from the new list or one of its
\* descendants, and an instance that comes is for an id absent from the old
\* list
C24_KeptChildren ==
    [][pc = "children" =>
        /\ \A c \in KeptChildren :
            /\ c \in Range(tree'.instances[update.id].children)
            /\ \A d \in Descendants(tree, c) :
                d \in Live(tree') /\ tree'.instances[d] = tree.instances[d]
        /\ \A i \in Live(tree) \ Live(tree') :
            \E r \in Range(children_ids) \ Range(update.patch.changed_children[1]) :
                i \in Descendants(tree, r)
        /\ Live(tree') \ Live(tree) # {}
            => Head(added_ids) \notin Range(children_ids)]_vars

\* the children of an instance have been processed: one child was kept,
\* with a child of its own, one was removed and one was inserted
C24_Witness ==
    /\ pc = "children" /\ removed_ids = <<>> /\ added_ids = <<>>
    /\ \E c \in KeptChildren : c \in Live(tree) /\ tree.instances[c].children # <<>>
    /\ \E r \in Range(children_ids) : r \notin Live(tree)
    /\ \E n \in Range(tree.instances[update.id].children) : n \notin Range(children_ids)

====
